---- MODULE Spec2Model ----
(***************************************************************************)
(* The user service of app/app.py: six HTTP handlers over a relational     *)
(* store (table users) and a best-effort cache (keys "user:<id>").         *)
(*                                                                         *)
(* POST /users is modelled step by step (connect, INSERT, commit, cache    *)
(* write and response) so that two requests interleave the way two worker  *)
(* threads do; the read-only handlers are one step each.  The store and    *)
(* the cache can become unreachable, and reachable again, between any two  *)
(* steps.                                                                  *)
(***************************************************************************)
EXTENDS Integers, Sequences, FiniteSets, TLC

\* ------------------------------------------------------------------ bounds
\* Values the sequence behind users.id may hand out.
MaxId == 2
\* Store connections that returned handlers may have left open.
MaxLeaked == 1

\* ------------------------------------------------------- program constants
\* Expiry, in seconds, of an entry written by create_user.
CACHE_TTL == 3600

\* ------------------------------------------------------------ value domains
\* Worker threads serving POST /users concurrently.
Clients == {"w1", "w2"}
\* JSON null, as a field value of a request body.
JsonNull == "<null>"
Names == {"Ann"}
Emails == {"a@x", "b@x"}

\* Python objects that are not dictionaries carry their type.
None == [type |-> "NoneType"]
Redis == [type |-> "Redis"]
Connection == [type |-> "connection"]

\* A dictionary is a function from its keys; these are the JSON objects a
\* request can carry (every subset of the two fields, null values included).
Dicts ==
    UNION { [K -> Names \cup Emails \cup {JsonNull}] : K \in SUBSET {"name", "email"} }
JsonObjects ==
    { d \in Dicts : /\ ("name" \in DOMAIN d => d["name"] \in Names \cup {JsonNull})
                    /\ ("email" \in DOMAIN d => d["email"] \in Emails \cup {JsonNull}) }
\* request.get_json(): the parsed object, or None when the request has no
\* JSON body.
Bodies == JsonObjects \cup {None}

VARIABLES
    dbUp,           \* the store accepts connections and answers statements
    cacheUp,        \* the cache answers commands
    tables,         \* the users table exists (init_database ran, or it pre-existed)
    redis_client,   \* the module-level handle: Redis, or None
    users,          \* committed rows of table users
    users_id_seq,   \* last value handed out by the SERIAL sequence of users.id
    redis,          \* cache contents: key -> [value, ttl]
    pc,             \* position of each worker inside create_user
    data,           \* the request body a worker is serving
    pending,        \* the row a worker has inserted and not yet committed
    leaked,         \* store connections opened by a handler that returned without closing them
    acked,          \* users that a 201 response has announced
    resp            \* the response completed last, with what its handler observed

vars == <<dbUp, cacheUp, tables, redis_client, users, users_id_seq, redis,
          pc, data, pending, leaked, acked, resp>>

\* ------------------------------------------------------------------ helpers
\* f"user:{user_id}"
UserKey(user_id) == <<"user:", user_id>>

\* json.dumps of a flat dictionary: the text, as its sequence of key/value
\* members in insertion order.
RECURSIVE json_dumps_keys(_, _)
json_dumps_keys(d, keys) ==
    IF keys = <<>> THEN <<>>
    ELSE <<<<Head(keys), d[Head(keys)]>>>> \o json_dumps_keys(d, Tail(keys))

UserDataKeys == <<"id", "name", "email", "created_at">>

json_dumps(d) == [json |-> json_dumps_keys(d, UserDataKeys)]

\* json.loads: the dictionary the text denotes (the last member wins when a
\* key repeats).
json_loads(text) ==
    LET members == text.json
    IN [k \in { members[i][1] : i \in DOMAIN members } |->
           LET i == CHOOSE j \in DOMAIN members :
                        /\ members[j][1] = k
                        /\ \A l \in DOMAIN members : members[l][1] = k => l <= j
           IN members[i][2]]

\* Bug variant of IsHit: the test is negated (`if not cached_user`), so a value
\* that was read is passed over.
IsHitNegated(cached_user) == cached_user # None /\ Len(cached_user.json) = 0

\* Truthiness of a string read from the cache: None and "" are false.
IsHit(cached_user) == cached_user # None /\ Len(cached_user.json) > 0

\* The logical time of the process and of the store: it advances with every
\* INSERT the store executes.
Now == users_id_seq

\* ------------------------------------------------------------ store client
\* get_db_connection(): a connection, or None when psycopg2.connect raises.
get_db_connection == IF dbUp THEN Connection ELSE None

\* Bug variant of insert_fault: the email column is not declared UNIQUE.
insert_fault_no_unique(name, email) ==
    IF ~dbUp THEN "connection_lost"
    ELSE IF ~tables THEN "undefined_table"
    ELSE IF name = JsonNull \/ email = JsonNull THEN "not_null_violation"
    ELSE "none"

\* What the store answers to INSERT INTO users (name, email) VALUES (...):
\* the columns are NOT NULL and email is UNIQUE.
insert_fault(name, email) ==
    IF ~dbUp THEN "connection_lost"
    ELSE IF ~tables THEN "undefined_table"
    ELSE IF name = JsonNull \/ email = JsonNull THEN "not_null_violation"
    ELSE IF \E r \in users : r.email = email THEN "unique_violation"
    ELSE "none"

\* What the store answers to a SELECT on users.
select_fault == IF ~tables THEN "undefined_table" ELSE "none"

\* The psycopg2 exception class a fault is raised as: both constraint
\* violations are IntegrityError.
ExceptionClass(fault) ==
    CASE fault \in {"unique_violation", "not_null_violation"} -> "IntegrityError"
      [] fault = "undefined_table" -> "ProgrammingError"
      [] fault = "connection_lost" -> "OperationalError"
      [] OTHER -> "none"

\* An INSERT waits while another transaction holds an uncommitted row with the
\* same email: the unique index decides once that transaction ends.
WaitsForUnique(w, email) ==
    \E o \in Clients \ {w} : pc[o] = "commit" /\ pending[o].email = email

\* SELECT * FROM users ORDER BY created_at DESC
RECURSIVE OrderByCreatedAtDesc(_)
OrderByCreatedAtDesc(rows) ==
    IF rows = {} THEN <<>>
    ELSE LET r == CHOOSE x \in rows : \A y \in rows : y.created_at <= x.created_at
         IN <<r>> \o OrderByCreatedAtDesc(rows \ {r})

\* Bug variant of SelectUser: the WHERE clause is missing.
SelectAnyUser(user_id) ==
    IF users # {}
    THEN CHOOSE r \in users : \A o \in users : o.id <= r.id
    ELSE None

\* SELECT * FROM users WHERE id = %s; fetchone()
SelectUser(user_id) ==
    IF \E r \in users : r.id = user_id
    THEN CHOOSE r \in users : r.id = user_id
    ELSE None

\* ------------------------------------------------------------- cache client
\* redis_client.get(key): the value, None when the key is absent.  The call
\* raises when the cache is unreachable.
redis_get(key) == IF key \in DOMAIN redis THEN redis[key].value ELSE None

\* redis_client.setex(key, ttl, value)
redis_setex(key, ttl, value) ==
    [k \in DOMAIN redis \cup {key} |->
        IF k = key THEN [value |-> value, ttl |-> ttl] ELSE redis[k]]

\* ---------------------------------------------------------------- responses
\* What a handler observed while it served the request.
Observed ==
    [conns |-> 0, released |-> 0, fault |-> "none", cache_failed |-> FALSE,
     uncaught |-> "none", db |-> dbUp, cache |-> cacheUp, client |-> redis_client,
     cached |-> None]

Response(route, arg, status, body, obs) ==
    [route |-> route, arg |-> arg, status |-> status, body |-> body] @@ obs @@ Observed

\* ------------------------------------------------------------------ startup
\* The module is imported (the cache handle is built and pinged once), then
\* init_database() creates the tables if the store is reachable.  The store
\* holds no user yet.
Init ==
    /\ dbUp \in BOOLEAN
    /\ cacheUp \in BOOLEAN
    /\ redis_client = IF cacheUp THEN Redis ELSE None
    /\ tables \in (IF dbUp THEN {TRUE} ELSE BOOLEAN)
    /\ users = {}
    /\ users_id_seq = 0
    /\ redis = <<>>
    /\ pc = [w \in Clients |-> "idle"]
    /\ data = [w \in Clients |-> None]
    /\ pending = [w \in Clients |-> None]
    /\ leaked = 0
    /\ acked = {}
    /\ resp = [route |-> "none"]

\* -------------------------------------------------------------- environment
StoreFlips ==
    /\ dbUp' = ~dbUp
    /\ UNCHANGED <<cacheUp, tables, redis_client, users, users_id_seq, redis,
                   pc, data, pending, leaked, acked, resp>>

CacheFlips ==
    /\ cacheUp' = ~cacheUp
    /\ UNCHANGED <<dbUp, tables, redis_client, users, users_id_seq, redis,
                   pc, data, pending, leaked, acked, resp>>

\* An entry reaches the end of its time to live.
Expire ==
    \E k \in DOMAIN redis :
        /\ redis' = [j \in DOMAIN redis \ {k} |-> redis[j]]
        /\ UNCHANGED <<dbUp, cacheUp, tables, redis_client, users, users_id_seq,
                       pc, data, pending, leaked, acked, resp>>

\* The runtime finalizes a connection object nothing refers to any more.
Finalize ==
    /\ leaked > 0
    /\ leaked' = leaked - 1
    /\ UNCHANGED <<dbUp, cacheUp, tables, redis_client, users, users_id_seq, redis,
                   pc, data, pending, acked, resp>>

\* ----------------------------------------------------------------- handlers
\* GET /
health_check ==
    Response("health_check", None, 200,
             [status |-> "healthy", timestamp |-> Now, version |-> "1.0.0"],
             Observed)

HealthCheck ==
    /\ resp' = health_check
    /\ UNCHANGED <<dbUp, cacheUp, tables, redis_client, users, users_id_seq, redis,
                   pc, data, pending, leaked, acked>>

\* Bug variant of health_status: a disabled cache handle is not reported.
health_status_skips_disabled(db_conn, client, ping_raises) ==
    LET database == IF db_conn # None THEN "healthy" ELSE "unhealthy"
        cache == IF client # None /\ ping_raises THEN "unhealthy" ELSE "healthy"
    IN [status |-> IF database = "unhealthy" \/ cache = "unhealthy"
                   THEN "degraded" ELSE "healthy",
        timestamp |-> Now,
        version |-> "1.0.0",
        services |-> [database |-> database, redis |-> cache]]

\* GET /health: the body built from the two liveness checks.
health_status(db_conn, client, ping_raises) ==
    LET database == IF db_conn # None THEN "healthy" ELSE "unhealthy"
        cache == IF client # None
                 THEN (IF ~ping_raises THEN "healthy" ELSE "unhealthy")
                 ELSE "unhealthy"
    IN [status |-> IF database = "unhealthy" \/ cache = "unhealthy"
                   THEN "degraded" ELSE "healthy",
        timestamp |-> Now,
        version |-> "1.0.0",
        services |-> [database |-> database, redis |-> cache]]

detailed_health ==
    LET db_conn == get_db_connection
        opened == IF db_conn # None THEN 1 ELSE 0
    IN Response("detailed_health", None, 200,
                health_status(db_conn, redis_client, ~cacheUp),
                [conns |-> opened, released |-> opened,
                 cache_failed |-> redis_client # None /\ ~cacheUp])

DetailedHealth ==
    /\ resp' = detailed_health
    /\ UNCHANGED <<dbUp, cacheUp, tables, redis_client, users, users_id_seq, redis,
                   pc, data, pending, leaked, acked>>

\* GET /users
get_users ==
    LET conn == get_db_connection
    IN IF conn = None
       THEN Response("get_users", None, 500, [error |-> "Database connection failed"],
                     [fault |-> "connect_failed"])
       ELSE IF select_fault # "none"
       THEN Response("get_users", None, 500, [error |-> "Failed to fetch users"],
                     [conns |-> 1, released |-> 1, fault |-> select_fault])
       ELSE Response("get_users", None, 200, OrderByCreatedAtDesc(users),
                     [conns |-> 1, released |-> 1])

GetUsers ==
    /\ resp' = get_users
    /\ UNCHANGED <<dbUp, cacheUp, tables, redis_client, users, users_id_seq, redis,
                   pc, data, pending, leaked, acked>>

\* GET /users/<user_id>
get_user(user_id) ==
    LET arg == [user_id |-> user_id]
        cache_raises == redis_client # None /\ ~cacheUp
        cached_user == IF redis_client # None /\ ~cache_raises
                       THEN redis_get(UserKey(user_id))
                       ELSE None
        conn == get_db_connection
        user == SelectUser(user_id)
        seen == [cached |-> redis_get(UserKey(user_id)), cache_failed |-> cache_raises]
    IN IF IsHit(cached_user)
       THEN Response("get_user", arg, 200, json_loads(cached_user), seen)
       ELSE IF conn = None
       THEN Response("get_user", arg, 500, [error |-> "Database connection failed"],
                     [fault |-> "connect_failed"] @@ seen)
       ELSE IF select_fault # "none"
       THEN Response("get_user", arg, 500, [error |-> "Failed to fetch user"],
                     [fault |-> select_fault, conns |-> 1, released |-> 1] @@ seen)
       ELSE IF user # None
       THEN Response("get_user", arg, 200, user,
                     [conns |-> 1, released |-> 1] @@ seen)
       ELSE Response("get_user", arg, 404, [error |-> "User not found"],
                     [conns |-> 1, released |-> 1] @@ seen)

GetUser ==
    \E user_id \in 1..MaxId :
        /\ resp' = get_user(user_id)
        /\ UNCHANGED <<dbUp, cacheUp, tables, redis_client, users, users_id_seq, redis,
                       pc, data, pending, leaked, acked>>

\* GET /metrics
MetricNames ==
    <<"http_requests_total", "http_request_duration_seconds",
      "database_connections_active", "redis_connections_active">>

\* The joined lines f"{metric} {value}", one per entry of metrics_data.
prometheus_metrics(db_conn, client) ==
    LET metrics_data ==
            [http_requests_total |-> "1",
             http_request_duration_seconds |-> "0.1",
             database_connections_active |-> IF db_conn # None THEN "1" ELSE "0",
             redis_connections_active |-> IF client # None THEN "1" ELSE "0"]
    IN [i \in DOMAIN MetricNames |-> <<MetricNames[i], metrics_data[MetricNames[i]]>>]

\* The connection opened for the gauge is never closed, and a ping that raises
\* leaves the handler: the framework answers 500.
metrics ==
    LET db_conn == get_db_connection
        opened == IF db_conn # None THEN 1 ELSE 0
        ping_raises == redis_client # None /\ ~cacheUp
    IN IF ping_raises
       THEN Response("metrics", None, 500, [error |-> "Internal Server Error"],
                     [conns |-> opened, cache_failed |-> TRUE,
                      uncaught |-> "ConnectionError"])
       ELSE Response("metrics", None, 200, prometheus_metrics(db_conn, redis_client),
                     [conns |-> opened])

Metrics ==
    /\ leaked < MaxLeaked
    /\ resp' = metrics
    /\ leaked' = leaked + (resp'.conns - resp'.released)
    /\ UNCHANGED <<dbUp, cacheUp, tables, redis_client, users, users_id_seq, redis,
                   pc, data, pending, acked>>

\* POST /users ------------------------------------------------------------
\* The validation of the request body: `not data or 'name' not in data or
\* 'email' not in data`.
IsInvalid(body) ==
    \/ body = None
    \/ DOMAIN body = {}
    \/ "name" \notin DOMAIN body
    \/ "email" \notin DOMAIN body

\* The except clauses of create_user: IntegrityError is answered 409, any
\* other exception 500.
create_user_except(exception) ==
    IF exception = "IntegrityError"
    THEN [status |-> 409, body |-> [error |-> "Email already exists"]]
    ELSE [status |-> 500, body |-> [error |-> "Failed to create user"]]

\* The snapshot written to the cache.
user_data(user_id, body) ==
    [id |-> user_id, name |-> body["name"], email |-> body["email"],
     created_at |-> Now]

\* The body of the 201 response.
created_body(user_id, body) ==
    [id |-> user_id, name |-> body["name"], email |-> body["email"],
     message |-> "User created successfully"]

\* INSERT statements that admitted requests have still to execute.
InsertsAhead == Cardinality({w \in Clients : pc[w] = "insert"})

\* Bug variant of create_user_begin: the connection is opened before the body
\* is validated.
create_user_begin_connects_first(body) ==
    IF get_db_connection = None
    THEN [next |-> "idle",
          resp |-> Response("create_user", body, 500,
                            [error |-> "Database connection failed"],
                            [fault |-> "connect_failed"])]
    ELSE IF IsInvalid(body)
    THEN [next |-> "idle",
          resp |-> Response("create_user", body, 400,
                            [error |-> "Name and email are required"],
                            [conns |-> 1, released |-> 1])]
    ELSE [next |-> "insert", resp |-> None]

\* The head of create_user: validation, then get_db_connection().  The
\* handler answers at once, or goes on to the INSERT.
create_user_begin(body) ==
    IF IsInvalid(body)
    THEN [next |-> "idle",
          resp |-> Response("create_user", body, 400,
                            [error |-> "Name and email are required"], Observed)]
    ELSE IF get_db_connection = None
    THEN [next |-> "idle",
          resp |-> Response("create_user", body, 500,
                            [error |-> "Database connection failed"],
                            [fault |-> "connect_failed"])]
    ELSE [next |-> "insert", resp |-> None]

CreateUserBegin(w) ==
    /\ pc[w] = "idle"
    /\ users_id_seq + InsertsAhead < MaxId
    /\ \E body \in Bodies :
        LET head == create_user_begin(body)
        IN IF head.next = "idle"
           THEN /\ resp' = head.resp
                /\ UNCHANGED <<pc, data>>
           ELSE /\ pc' = [pc EXCEPT ![w] = head.next]
                /\ data' = [data EXCEPT ![w] = body]
                /\ UNCHANGED resp
    /\ UNCHANGED <<dbUp, cacheUp, tables, redis_client, users, users_id_seq, redis,
                   pending, leaked, acked>>

\* cursor.execute(INSERT ... RETURNING id); fetchone().  A statement the store
\* evaluates takes a value of the sequence whether or not it succeeds.  On an
\* exception the handler answers through its except clauses and closes the
\* connection.
CreateUserInsert(w) ==
    /\ pc[w] = "insert"
    /\ LET name == data[w]["name"]
           email == data[w]["email"]
           fault == insert_fault(name, email)
           answer == create_user_except(ExceptionClass(fault))
       IN IF fault # "none"
          THEN /\ resp' = Response("create_user", data[w], answer.status, answer.body,
                                   [fault |-> fault, conns |-> 1, released |-> 1])
               /\ users_id_seq' = IF fault \in {"unique_violation", "not_null_violation"}
                                  THEN users_id_seq + 1 ELSE users_id_seq
               /\ pc' = [pc EXCEPT ![w] = "idle"]
               /\ data' = [data EXCEPT ![w] = None]
               /\ UNCHANGED pending
          ELSE /\ ~WaitsForUnique(w, email)
               /\ users_id_seq' = users_id_seq + 1
               /\ pending' = [pending EXCEPT ![w] =
                                [id |-> users_id_seq', name |-> name, email |-> email,
                                 created_at |-> users_id_seq']]
               /\ pc' = [pc EXCEPT ![w] = "commit"]
               /\ UNCHANGED <<data, resp>>
    /\ UNCHANGED <<dbUp, cacheUp, tables, redis_client, users, redis, leaked, acked>>

\* Bug variant of CreateUserCommit: a failed commit is not noticed, and the
\* handler goes on to the cache write.
CreateUserCommitUnchecked(w) ==
    /\ pc[w] = "commit"
    /\ users' = IF dbUp THEN users \cup {pending[w]} ELSE users
    /\ pc' = [pc EXCEPT ![w] = "cache"]
    /\ UNCHANGED <<data, pending, resp>>
    /\ UNCHANGED <<dbUp, cacheUp, tables, redis_client, users_id_seq, redis, leaked,
                   acked>>

\* conn.commit()
CreateUserCommit(w) ==
    /\ pc[w] = "commit"
    /\ IF ~dbUp
       THEN LET answer == create_user_except(ExceptionClass("connection_lost"))
            IN /\ resp' = Response("create_user", data[w], answer.status, answer.body,
                                   [fault |-> "connection_lost", conns |-> 1,
                                    released |-> 1])
               /\ pc' = [pc EXCEPT ![w] = "idle"]
               /\ data' = [data EXCEPT ![w] = None]
               /\ pending' = [pending EXCEPT ![w] = None]
               /\ UNCHANGED users
       ELSE /\ users' = users \cup {pending[w]}
            /\ pc' = [pc EXCEPT ![w] = "cache"]
            /\ UNCHANGED <<data, pending, resp>>
    /\ UNCHANGED <<dbUp, cacheUp, tables, redis_client, users_id_seq, redis, leaked,
                   acked>>

\* The best-effort cache write, the 201 response, and conn.close().
CreateUserRespond(w) ==
    /\ pc[w] = "cache"
    /\ LET user_id == pending[w].id
           setex_raises == redis_client # None /\ ~cacheUp
       IN /\ redis' = IF redis_client # None /\ ~setex_raises
                      THEN redis_setex(UserKey(user_id), CACHE_TTL,
                                       json_dumps(user_data(user_id, data[w])))
                      ELSE redis
          /\ resp' = Response("create_user", data[w], 201,
                              created_body(user_id, data[w]),
                              [conns |-> 1, released |-> 1,
                               cache_failed |-> setex_raises])
          /\ acked' = acked \cup {[id |-> user_id, name |-> data[w]["name"],
                                   email |-> data[w]["email"]]}
    /\ pc' = [pc EXCEPT ![w] = "idle"]
    /\ data' = [data EXCEPT ![w] = None]
    /\ pending' = [pending EXCEPT ![w] = None]
    /\ UNCHANGED <<dbUp, cacheUp, tables, redis_client, users, users_id_seq, leaked>>

\* ------------------------------------------------------------ specification
Next ==
    \/ StoreFlips
    \/ CacheFlips
    \/ Expire
    \/ Finalize
    \/ HealthCheck
    \/ DetailedHealth
    \/ GetUsers
    \/ GetUser
    \/ Metrics
    \/ \E w \in Clients : CreateUserBegin(w)
    \/ \E w \in Clients : CreateUserInsert(w)
    \/ \E w \in Clients : CreateUserCommit(w)
    \/ \E w \in Clients : CreateUserRespond(w)

Spec == Init /\ [][Next]_vars

\* ------------------------------------------------------------------- claims
\* The handler that answered last read the entry of its key from the cache.
CacheAnswered ==
    /\ resp.route = "get_user"
    /\ resp.client # None
    /\ resp.cache
    /\ resp.cached # None

\* C1: once POST /users has answered 201 with id i for (name, email), a
\* GET /users/i answers 200 with that name and email, from the cache entry or
\* from the store; the only other answer is 500, when the cache did not answer
\* and the store was unreachable.
C1_CreateThenGet ==
    \A u \in acked :
        (resp.route = "get_user" /\ resp.arg.user_id = u.id) =>
            /\ resp.status \in {200, 500}
            /\ resp.status = 500 => (~CacheAnswered /\ ~resp.db)
            /\ resp.status = 200 =>
                /\ resp.body.id = u.id
                /\ resp.body.name = u.name
                /\ resp.body.email = u.email

\* C1 witness: an announced user is read back from the store after the cache
\* call failed.
C1_Witness ==
    /\ resp.route = "get_user"
    /\ resp.status = 200
    /\ resp.cache_failed
    /\ \E u \in acked : u.id = resp.arg.user_id /\ u.email = resp.body.email

\* C2: no two committed rows share an email, and an INSERT that reaches the
\* store when a committed row already holds its email is answered 409 and
\* adds no row, also when the two requests overlapped.
EmailUnique == \A r1, r2 \in users : r1.email = r2.email => r1 = r2

SecondInsertConflicts ==
    \A w \in Clients :
        ( /\ pc[w] = "insert"
          /\ pc'[w] # "insert"
          /\ dbUp /\ tables
          /\ \E r \in users : r.email = data[w]["email"] ) =>
            /\ resp'.route = "create_user"
            /\ resp'.arg = data[w]
            /\ resp'.status = 409
            /\ users' = users

C2_DuplicateEmailConflicts == []EmailUnique /\ [][SecondInsertConflicts]_vars

\* C2 witness: a request is answered 409 for the email of a row whose own
\* request has committed and not yet answered.
C2_Witness ==
    /\ resp.route = "create_user"
    /\ resp.status = 409
    /\ resp.arg["name"] # JsonNull
    /\ \E w \in Clients :
        /\ pc[w] = "cache"
        /\ pending[w].email = resp.arg["email"]
        /\ pending[w] \in users

\* C3: when the cache answers with the entry of "user:id", GET /users/id
\* answers 200 with exactly the members of the cached value and opens no store
\* connection, whether or not the store is reachable.
C3_CacheHitServedWithoutStore ==
    CacheAnswered =>
        /\ resp.status = 200
        /\ resp.conns = 0
        /\ DOMAIN resp.body = { resp.cached.json[i][1] : i \in DOMAIN resp.cached.json }
        /\ \A i \in DOMAIN resp.cached.json :
               resp.body[resp.cached.json[i][1]] = resp.cached.json[i][2]

\* C3 witness: a cache hit answered while the store was unreachable.
C3_Witness == CacheAnswered /\ ~resp.db /\ resp.status = 200

\* C4: a cache call that fails never leaves the handler and never makes the
\* response an error: a 5xx answered after a failed cache call is due to the
\* store.
C4_CacheFailureCaught ==
    (resp.route # "none" /\ resp.cache_failed) =>
        /\ resp.uncaught = "none"
        /\ resp.status >= 500 => resp.fault # "none"

\* C5 as stated: GET /health answers 200, and degraded exactly when the store
\* or the cache is unreachable at the time of the request.
C5_DegradedIffUnreachable ==
    resp.route = "detailed_health" =>
        /\ resp.status = 200
        /\ resp.body.status \in {"healthy", "degraded"}
        /\ resp.body.status = "degraded" <=> (~resp.db \/ ~resp.cache)

\* C5 amended: GET /health answers 200, and degraded exactly when the store
\* connect fails, or the cache handle is disabled, or its ping fails.
C5_DegradedIffCheckFails ==
    resp.route = "detailed_health" =>
        /\ resp.status = 200
        /\ resp.body.status \in {"healthy", "degraded"}
        /\ resp.body.status = "degraded" <=>
               (~resp.db \/ resp.client = None \/ ~resp.cache)

\* C5 witness: degraded is reported with the store and the cache both
\* reachable, the handle having been disabled at startup.
C5_Witness ==
    /\ resp.route = "detailed_health"
    /\ resp.db /\ resp.cache /\ resp.client = None
    /\ resp.body.status = "degraded"

\* C6: GET /metrics answers 200 with the four lines, whatever the store and
\* the cache do.
C6_MetricsAlwaysFourLines ==
    resp.route = "metrics" =>
        /\ resp.status = 200
        /\ Len(resp.body) = 4
        /\ \A i \in 1..4 : resp.body[i][1] = MetricNames[i]

\* C7: POST /users answers 409 exactly when the insert failed on the unique
\* email, and 500 on every other store failure.
C7_ConflictOnlyOnDuplicateEmail ==
    resp.route = "create_user" =>
        /\ resp.status = 409 <=> resp.fault = "unique_violation"
        /\ resp.fault \notin {"none", "unique_violation"} => resp.status = 500

\* C8: a POST /users whose body is absent or lacks name or email is answered
\* 400, opens no store connection, and changes neither the store nor the cache
\* nor any request in progress.
InvalidAnswered400 ==
    (resp.route = "create_user" /\ IsInvalid(resp.arg)) =>
        /\ resp.status = 400
        /\ resp.conns = 0

InvalidHasNoEffect ==
    (resp' # resp /\ resp'.route = "create_user" /\ IsInvalid(resp'.arg)) =>
        /\ users' = users
        /\ users_id_seq' = users_id_seq
        /\ redis' = redis
        /\ pending' = pending
        /\ pc' = pc
        /\ leaked' = leaked

C8_InvalidBodyRejected == []InvalidAnswered400 /\ [][InvalidHasNoEffect]_vars

\* C8 witness: a body without email was answered 400 while the store was
\* reachable and already held a row.
C8_Witness ==
    /\ resp.route = "create_user"
    /\ resp.arg # None
    /\ DOMAIN resp.arg = {"name"}
    /\ resp.status = 400
    /\ resp.db
    /\ users # {}

\* C9: when no request is in progress, no store connection opened by a
\* handler is still open, and every completed handler closed what it opened.
C9_ConnectionsReleased ==
    /\ (\A w \in Clients : pc[w] = "idle") => leaked = 0
    /\ resp.route # "none" => resp.released = resp.conns

\* C10: every cache entry is the snapshot, under key "user:i", of a committed
\* row i of the store with the same name and email; the cache is written only
\* by the step of create_user that follows the commit, and otherwise only
\* loses entries.
CacheBackedByStore ==
    \A k \in DOMAIN redis :
        LET v == json_loads(redis[k].value)
        IN /\ k = UserKey(v.id)
           /\ redis[k].ttl = CACHE_TTL
           /\ \E r \in users : r.id = v.id /\ r.name = v.name /\ r.email = v.email

CacheWrittenOnlyAfterCommit ==
    redis' # redis =>
        \/ \E w \in Clients :
              /\ pc[w] = "cache" /\ pc'[w] = "idle"
              /\ pending[w] \in users
              /\ DOMAIN redis' = DOMAIN redis \cup {UserKey(pending[w].id)}
              /\ \A k \in DOMAIN redis : k # UserKey(pending[w].id) => redis'[k] = redis[k]
        \/ /\ DOMAIN redis' \subseteq DOMAIN redis
           /\ \A k \in DOMAIN redis' : redis'[k] = redis[k]

C10_CacheEntriesAreCommittedRows ==
    []CacheBackedByStore /\ [][CacheWrittenOnlyAfterCommit]_vars

\* C10 witness: the cache holds the entry of a user that a later store read
\* (which left the cache as it was) also returned.
C10_Witness ==
    /\ resp.route = "get_user"
    /\ resp.status = 200
    /\ resp.conns = 1
    /\ Cardinality(DOMAIN redis) = 1
    /\ UserKey(resp.arg.user_id) \notin DOMAIN redis
    /\ Cardinality(users) = 2

====
